---- MODULE Spec2Model ----
(***************************************************************************)
(* n64swap: conversion of an N64 ROM image between the three byte orders   *)
(* BigEndian (.z64), ByteSwap (.v64) and LittleEndian (.n64).              *)
(*                                                                         *)
(* Bytes are integers 0..255.  A 4-byte array [u8; 4] is a sequence of     *)
(* length 4 (index i of the source is index i+1 here).  A string is the    *)
(* sequence of its characters, each a TLA+ string: an ASCII character is   *)
(* itself, "e_acute" is the one character U+00E9, two bytes in UTF-8.      *)
(* Option<T> is a sequence of length at most one: None is << >>, Some(x)   *)
(* is << x >>.                                                             *)
(***************************************************************************)
EXTENDS Integers, Sequences, FiniteSets, TLC

None == << >>
Some(x) == << x >>

(***************************************************************************)
(* Encoding identity                                                       *)
(***************************************************************************)
BIG_ENDIAN == << 128, 55, 18, 64 >>
BYTE_SWAP == << 55, 128, 64, 18 >>
LITTLE_ENDIAN == << 64, 18, 55, 128 >>

RomType == { "BigEndian", "ByteSwap", "LittleEndian" }

get_file_ext(t) ==
    CASE t = "BigEndian" -> << ".", "z", "6", "4" >>
      [] t = "ByteSwap" -> << ".", "v", "6", "4" >>
      [] t = "LittleEndian" -> << ".", "n", "6", "4" >>

\* get_header_bytes with the ByteSwap arm returning the wrong constant.
get_header_bytes_wrong_arm(t) ==
    CASE t = "BigEndian" -> BIG_ENDIAN
      [] t = "ByteSwap" -> LITTLE_ENDIAN
      [] t = "LittleEndian" -> BYTE_SWAP

get_header_bytes(t) ==
    CASE t = "BigEndian" -> BIG_ENDIAN
      [] t = "ByteSwap" -> BYTE_SWAP
      [] t = "LittleEndian" -> LITTLE_ENDIAN

(***************************************************************************)
(* Detector                                                                *)
(***************************************************************************)
UpperCase ==
    << "A", "B", "C", "D", "E", "F", "G", "H", "I", "J", "K", "L", "M",
       "N", "O", "P", "Q", "R", "S", "T", "U", "V", "W", "X", "Y", "Z" >>
LowerCase ==
    << "a", "b", "c", "d", "e", "f", "g", "h", "i", "j", "k", "l", "m",
       "n", "o", "p", "q", "r", "s", "t", "u", "v", "w", "x", "y", "z" >>

\* char::to_lowercase: every upper-case ASCII letter to its lower-case
\* letter; digits, '.', lower-case letters and U+00E9 are left as they are.
to_lowercase_char(c) ==
    IF \E i \in 1..26 : UpperCase[i] = c
    THEN LowerCase[CHOOSE i \in 1..26 : UpperCase[i] = c]
    ELSE c

to_lowercase(s) == [i \in 1..Len(s) |-> to_lowercase_char(s[i])]

\* guess_type without the to_lowercase call.
guess_type_case_sensitive(ext) ==
    CASE ext = << ".", "z", "6", "4" >> -> Some("BigEndian")
      [] ext = << ".", "v", "6", "4" >> -> Some("ByteSwap")
      [] ext = << ".", "n", "6", "4" >> -> Some("LittleEndian")
      [] OTHER -> None

guess_type(ext) ==
    LET low == to_lowercase(ext) IN
    CASE low = << ".", "z", "6", "4" >> -> Some("BigEndian")
      [] low = << ".", "v", "6", "4" >> -> Some("ByteSwap")
      [] low = << ".", "n", "6", "4" >> -> Some("LittleEndian")
      [] OTHER -> None

\* identify_header falling back to BigEndian instead of None.
identify_header_fallback(bytes) ==
    CASE bytes = BIG_ENDIAN -> Some("BigEndian")
      [] bytes = BYTE_SWAP -> Some("ByteSwap")
      [] bytes = LITTLE_ENDIAN -> Some("LittleEndian")
      [] OTHER -> Some("BigEndian")

identify_header(bytes) ==
    CASE bytes = BIG_ENDIAN -> Some("BigEndian")
      [] bytes = BYTE_SWAP -> Some("ByteSwap")
      [] bytes = LITTLE_ENDIAN -> Some("LittleEndian")
      [] OTHER -> None

\* str::rfind('.'): the greatest index holding '.', as an Option.
rfind_dot(filename) ==
    LET dots == { i \in 1..Len(filename) : filename[i] = "." } IN
    IF dots = {} THEN None
    ELSE Some(CHOOSE i \in dots : \A j \in dots : j <= i)

detect_ext(filename) ==
    LET idx == rfind_dot(filename) IN
    IF idx # None THEN Some(SubSeq(filename, idx[1], Len(filename)))
    ELSE None

(***************************************************************************)
(* Swap transform                                                          *)
(***************************************************************************)
\* <[u8]>::swap(a, b) with the source's 0-based indices.
swap(bytes, a, b) ==
    [bytes EXCEPT ![a + 1] = bytes[b + 1], ![b + 1] = bytes[a + 1]]

\* swapper whose first arm lacks the (ByteSwap, BigEndian) alternative.
swapper_one_way(bytes, src_type, dst_type) ==
    LET pair == << src_type, dst_type >> IN
    CASE pair = << "BigEndian", "ByteSwap" >> ->
            swap(swap(bytes, 0, 1), 2, 3)
      [] pair = << "BigEndian", "LittleEndian" >>
           \/ pair = << "LittleEndian", "BigEndian" >> ->
            swap(swap(bytes, 0, 3), 1, 2)
      [] pair = << "ByteSwap", "LittleEndian" >>
           \/ pair = << "LittleEndian", "ByteSwap" >> ->
            swap(swap(bytes, 0, 2), 1, 3)
      [] OTHER -> bytes

\* swapper whose second arm lacks bytes.swap(1, 2).
swapper_half_reversal(bytes, src_type, dst_type) ==
    LET pair == << src_type, dst_type >> IN
    CASE pair = << "BigEndian", "ByteSwap" >>
           \/ pair = << "ByteSwap", "BigEndian" >> ->
            swap(swap(bytes, 0, 1), 2, 3)
      [] pair = << "BigEndian", "LittleEndian" >>
           \/ pair = << "LittleEndian", "BigEndian" >> ->
            swap(bytes, 0, 3)
      [] pair = << "ByteSwap", "LittleEndian" >>
           \/ pair = << "LittleEndian", "ByteSwap" >> ->
            swap(swap(bytes, 0, 2), 1, 3)
      [] OTHER -> bytes

swapper(bytes, src_type, dst_type) ==
    LET pair == << src_type, dst_type >> IN
    CASE pair = << "BigEndian", "ByteSwap" >>
           \/ pair = << "ByteSwap", "BigEndian" >> ->
            swap(swap(bytes, 0, 1), 2, 3)
      [] pair = << "BigEndian", "LittleEndian" >>
           \/ pair = << "LittleEndian", "BigEndian" >> ->
            swap(swap(bytes, 0, 3), 1, 2)
      [] pair = << "ByteSwap", "LittleEndian" >>
           \/ pair = << "LittleEndian", "ByteSwap" >> ->
            swap(swap(bytes, 0, 2), 1, 3)
      [] OTHER -> bytes

\* main, lines 145-151: the destination encoding.
resolve_outfiletype(romtype, destination_filename) ==
    IF romtype # None THEN romtype[1]
    ELSE LET ext == IF destination_filename = None THEN None
                    ELSE detect_ext(destination_filename[1])
             guessed == IF ext = None THEN None ELSE guess_type(ext[1])
         IN IF guessed = None THEN "BigEndian" ELSE guessed[1]

(***************************************************************************)
(* Bounds of the model                                                     *)
(***************************************************************************)
\* Greatest number of body bytes of an input file.
MaxBody == 6
\* Number of successive program runs (a run may read the previous output).
MaxRuns == 2
\* Greatest number of encodings a word is taken through.
MaxPath == 3
\* Greatest number of tokens a destination filename is made of.
MaxParts == 4

(***************************************************************************)
(* Buffered output: std::io::BufWriter<File> as main uses it               *)
(***************************************************************************)
\* Capacity of the buffer BufWriter::new allocates.
BufCap == 8192

\* File content after `data` is written at offset `pos` (no truncation).
overlay(content, pos, data) ==
    SubSeq(content, 1, pos) \o data
        \o SubSeq(content, pos + Len(data) + 1, Len(content))

\* File::write_all(data) on a file that accepts `limit` bytes in all and
\* fails every write past them (None: no limit).  `written` is what the
\* file accepted so far.  Every byte is accepted, or the bytes up to the
\* limit are and the call returns an error.
inner_write_all(written, data, limit) ==
    LET room == IF limit = None THEN Len(data)
                ELSE IF limit[1] - Len(written) >= Len(data) THEN Len(data)
                ELSE IF limit[1] - Len(written) <= 0 THEN 0
                ELSE limit[1] - Len(written)
    IN [ok |-> room = Len(data), written |-> written \o SubSeq(data, 1, room)]

\* BufWriter::flush_buf: the bytes that reached the file leave the buffer,
\* the others stay in it.  An empty buffer is flushed without a write.
flush_buf(outbuf, written, limit) ==
    LET o == inner_write_all(written, outbuf, limit)
    IN [ok |-> o.ok, written |-> o.written,
        outbuf |-> SubSeq(outbuf, Len(o.written) - Len(written) + 1,
                          Len(outbuf))]

\* BufWriter::write_all(data): the outcome [ok, outbuf, written].
write_all(outbuf, written, data, limit) ==
    IF Len(data) < BufCap - Len(outbuf)
    THEN [ok |-> TRUE, outbuf |-> outbuf \o data, written |-> written]
    ELSE LET f == IF Len(data) > BufCap - Len(outbuf)
                  THEN flush_buf(outbuf, written, limit)
                  ELSE [ok |-> TRUE, outbuf |-> outbuf, written |-> written]
         IN IF ~f.ok THEN f
            ELSE IF Len(data) >= BufCap
                 THEN LET o == inner_write_all(f.written, data, limit)
                      IN [ok |-> o.ok, outbuf |-> f.outbuf,
                          written |-> o.written]
                 ELSE [ok |-> TRUE, outbuf |-> f.outbuf \o data,
                       written |-> f.written]

(***************************************************************************)
(* State                                                                   *)
(***************************************************************************)
VARIABLES
    args,         \* Args: filename, destination_filename, romtype, identify, force
    infile,       \* Option: content of the file at args.filename
    infault,      \* Option: bytes the input file yields before reads fail
    outfile,      \* Option: content of the file at the output path
    outlimit,     \* Option: bytes the output file accepts before writes fail
    fs,           \* files of earlier runs: name |-> content
    pc,           \* the statement of main that runs next
    inpos,        \* bytes of infile the BufReader has handed out
    bytes,        \* the [u8; 4] buffer
    filetype,     \* Option<RomType>: the detected encoding
    outfiletype,  \* Option<RomType>: the destination encoding
    outfilename,  \* Option<String>: the output path
    outbuf,       \* bytes held by the BufWriter
    written,      \* bytes this run delivered to the output file, in order
    outstate,     \* "unopened", "open", "dropped" (flushed by Drop and
                  \* closed), "abandoned" (exit() with the BufWriter alive)
    exitcode,     \* Option: the process exit status
    msg,          \* the line printed on stdout
    ioerr,        \* an open/read/write error occurred in this run
    run,          \* number of the current run
    prev,         \* Option: summary of the previous run
    word0, word, path,       \* a word taken through a chain of encodings
    rdest, rromtype, rout    \* a destination resolution on its own

runvars == << args, infile, infault, outfile, outlimit, fs, pc, inpos, bytes,
              filetype, outfiletype, outfilename, outbuf, written, outstate, exitcode, msg, ioerr,
              run, prev >>
swapvars == << word0, word, path >>
resvars == << rdest, rromtype, rout >>
vars == << runvars, swapvars, resvars >>

(***************************************************************************)
(* Inputs                                                                  *)
(***************************************************************************)
\* Input filenames: shorter than 4 bytes, with a 3-letter extension,
\* without one, with a character of two bytes before the extension, and
\* with such a character before a shorter extension.
InputNames ==
    { << "r", "o", "m" >>, << "a", ".", "v", "6", "4" >>,
      << "g", "a", "m", "e" >>, << "e_acute", ".", "v", "6", "4" >>,
      << "e_acute", ".", "a", "b" >> }

DestinationNames ==
    { << "a", ".", "v", "6", "4" >>, << "b", ".", "N", "6", "4" >>,
      << "o", "u", "t" >> }

\* First bytes of an input file: the three signatures, an unknown header,
\* a mix of two signatures, and files shorter than a header.
Headers ==
    { BIG_ENDIAN, BYTE_SWAP, LITTLE_ENDIAN, << 255, 255, 255, 255 >>,
      << 128, 55, 64, 18 >>, << 128, 55 >>, << >> }

\* Body bytes: neighbours differ, so every permutation of a word shows.
Body(n) == [i \in 1..n |-> i % 256]

InputFiles == { h \o Body(n) : h \in Headers, n \in 0..MaxBody }

\* An input whose output overflows the BufWriter by one word.
LargeFiles == { BYTE_SWAP \o Body(BufCap) }

\* Content found at the output path before the run (None: no such file).
OldOutputs == { None, Some(<< 238, 238, 238, 238, 238, 238, 238, 238 >>) }

\* Where reads of the input file fail: nowhere, or after any number of its
\* bytes.
SourceFaults(file) ==
    IF file = None THEN { None }
    ELSE { None } \cup { Some(k) : k \in 0..Len(file[1]) }

\* What the output file accepts: everything, or 5 bytes.
SinkLimits == { None, Some(5) }

ArgsSet ==
    [ filename : InputNames,
      destination_filename : { None } \cup { Some(d) : d \in DestinationNames },
      romtype : { None } \cup { Some(t) : t \in RomType },
      identify : { FALSE },
      force : BOOLEAN ]
    \cup
    [ filename : InputNames,
      destination_filename : { None },
      romtype : { None },
      identify : { TRUE },
      force : { FALSE } ]

\* The command line the large inputs are converted with.
LargeArgs ==
    [ filename |-> << "g", "a", "m", "e" >>, destination_filename |-> None,
      romtype |-> Some("BigEndian"), identify |-> FALSE, force |-> FALSE ]

NoFiles == [n \in {} |-> << >>]

IdleSwap == word0 = << >> /\ word = << >> /\ path = << >>
IdleRes == rdest = None /\ rromtype = None /\ rout = None

\* The state in which main starts.
Fresh ==
    /\ pc = "open_input"
    /\ inpos = 0
    /\ bytes = << 0, 0, 0, 0 >>
    /\ filetype = None
    /\ outfiletype = None
    /\ outfilename = None
    /\ outbuf = << >>
    /\ written = << >>
    /\ outstate = "unopened"
    /\ outlimit = None
    /\ exitcode = None
    /\ msg = ""
    /\ ioerr = FALSE

Init ==
    /\ \/ /\ args \in ArgsSet
          /\ infile \in { None } \cup { Some(f) : f \in InputFiles }
          /\ infault \in SourceFaults(infile)
          /\ outfile \in OldOutputs
       \/ /\ args = LargeArgs
          /\ infile \in { Some(f) : f \in LargeFiles }
          /\ infault = None
          /\ outfile = None
    /\ fs = NoFiles
    /\ Fresh
    /\ run = 1
    /\ prev = None
    /\ IdleSwap
    /\ IdleRes

(***************************************************************************)
(* main, one action per stage                                              *)
(***************************************************************************)
\* exit(code) after println!(m): destructors do not run.
Exit(code, m) ==
    /\ pc' = "done"
    /\ exitcode' = Some(code)
    /\ msg' = m
    /\ outstate' = IF outstate = "open" THEN "abandoned" ELSE outstate

\* BufReader::read_exact(&mut bytes), the outcome [ok, io, bytes, pos], on
\* a source that fails with an I/O error once `fault[1]` bytes were read
\* (None: it never fails).  Ok with the next four bytes; Err at the end of
\* the input; Err when the source fails before the fourth byte.  On Err
\* the bytes obtained before it are copied to the front of the buffer and
\* are consumed.
read_exact(content, pos, buf, fault) ==
    LET avail == Len(content) - pos
        short(k) == SubSeq(content, pos + 1, pos + k) \o SubSeq(buf, k + 1, 4)
    IN IF fault # None /\ fault[1] >= pos /\ fault[1] - pos < 4
          /\ fault[1] <= Len(content)
       THEN [ok |-> FALSE, io |-> TRUE, bytes |-> short(fault[1] - pos),
             pos |-> fault[1]]
       ELSE IF avail >= 4
       THEN [ok |-> TRUE, io |-> FALSE,
             bytes |-> SubSeq(content, pos + 1, pos + 4), pos |-> pos + 4]
       ELSE [ok |-> FALSE, io |-> FALSE, bytes |-> short(avail),
             pos |-> Len(content)]

\* Lines 121-125.
OpenInput ==
    /\ pc = "open_input"
    /\ IF infile = None
       THEN /\ Exit(1, "Unable to open file")
            /\ ioerr' = TRUE
       ELSE /\ pc' = "read_header"
            /\ UNCHANGED << exitcode, msg, outstate, ioerr >>
    /\ UNCHANGED << args, infile, infault, outfile, outlimit, fs, inpos, bytes,
                    filetype, outfiletype, outfilename, outbuf, written, run,
                    prev >>
    /\ UNCHANGED << swapvars, resvars >>

\* Lines 129-137.
ReadHeader ==
    /\ pc = "read_header"
    /\ LET r == read_exact(infile[1], inpos, bytes, infault) IN
         /\ bytes' = r.bytes
         /\ inpos' = r.pos
         /\ ioerr' = (ioerr \/ r.io)
         /\ IF ~r.ok
            THEN /\ Exit(1, "Error reading file")
                 /\ UNCHANGED filetype
            ELSE /\ filetype' = identify_header(r.bytes)
                 /\ IF identify_header(r.bytes) = None
                    THEN Exit(1, "not recognized")
                    ELSE /\ pc' = "identify"
                         /\ UNCHANGED << exitcode, msg, outstate >>
    /\ UNCHANGED << args, infile, infault, outfile, outlimit, fs, outfiletype,
                    outfilename, outbuf, written, run, prev >>
    /\ UNCHANGED << swapvars, resvars >>

\* Lines 139-142.
IdentifyOnly ==
    /\ pc = "identify"
    /\ IF args.identify
       THEN Exit(0, "File is")
       ELSE /\ pc' = "resolve"
            /\ UNCHANGED << exitcode, msg, outstate >>
    /\ UNCHANGED << args, infile, infault, outfile, outlimit, fs, inpos, bytes,
                    filetype, outfiletype, outfilename, outbuf, written,
                    ioerr, run, prev >>
    /\ UNCHANGED << swapvars, resvars >>

\* ResolveOutput without the test of lines 153-156.
ResolveOutput_unchecked ==
    /\ pc = "resolve"
    /\ outfiletype' =
         Some(resolve_outfiletype(args.romtype, args.destination_filename))
    /\ pc' = "name_output"
    /\ UNCHANGED << args, infile, infault, outfile, outlimit, fs, inpos, bytes,
                    filetype, outfilename, outbuf, written, ioerr, run, prev,
                    exitcode, msg, outstate >>
    /\ UNCHANGED << swapvars, resvars >>

\* Lines 145-156.
ResolveOutput ==
    /\ pc = "resolve"
    /\ LET t == resolve_outfiletype(args.romtype, args.destination_filename)
       IN /\ outfiletype' = Some(t)
          /\ IF filetype = Some(t)
             THEN Exit(0, "File is already")
             ELSE /\ pc' = "name_output"
                  /\ UNCHANGED << exitcode, msg, outstate >>
    /\ UNCHANGED << args, infile, infault, outfile, outlimit, fs, inpos, bytes,
                    filetype, outfilename, outbuf, written, ioerr, run, prev >>
    /\ UNCHANGED << swapvars, resvars >>

\* Bytes of a character in UTF-8, and str::len, the length in bytes.
utf8_len(c) == IF c = "e_acute" THEN 2 ELSE 1

RECURSIVE byte_len(_)
byte_len(name) ==
    IF name = << >> THEN 0
    ELSE utf8_len(name[1]) + byte_len(SubSeq(name, 2, Len(name)))

\* String::truncate(new_len), new_len a byte offset not beyond the end:
\* the characters before it, or None (a panic) when it falls inside a
\* character.
truncate(name, new_len) ==
    LET cuts == { m \in 0..Len(name) :
                    byte_len(SubSeq(name, 1, m)) = new_len }
    IN IF cuts = {} THEN None
       ELSE Some(SubSeq(name, 1, CHOOSE m \in cuts : TRUE))

\* Lines 158-166: the output path, None for a panic.  len is a length in
\* bytes, chars().nth(len - 4) counts characters.  `len - 4` underflows
\* for an input name shorter than 4 bytes: a build with overflow checks
\* panics there, one without wraps, and chars().nth() of the wrapped index
\* is None.
default_outfilename(name, t, overflow_checks) ==
    LET len == byte_len(name) IN
    IF len < 4
    THEN IF overflow_checks THEN None ELSE Some(name \o get_file_ext(t))
    ELSE IF len - 4 + 1 <= Len(name) /\ name[len - 4 + 1] = "."
         THEN LET cut == truncate(name, len - 4)
              IN IF cut = None THEN None
                 ELSE Some(cut[1] \o get_file_ext(t))
         ELSE Some(name \o get_file_ext(t))

\* Lines 158-174.
NameOutput ==
    /\ pc = "name_output"
    /\ \E overflow_checks \in BOOLEAN :
         LET name == IF args.destination_filename # None
                     THEN args.destination_filename
                     ELSE default_outfilename(args.filename, outfiletype[1],
                                              overflow_checks)
         IN /\ outfilename' = name
            /\ IF name = None
               THEN Exit(101, "panic")
               ELSE IF args.filename = name[1]
                    THEN Exit(1, "Input and Output filenames are identical")
                    ELSE /\ pc' = "open_output"
                         /\ UNCHANGED << exitcode, msg, outstate >>
    /\ UNCHANGED << args, infile, infault, outfile, outlimit, fs, inpos, bytes,
                    filetype, outfiletype, outbuf, written, ioerr, run, prev >>
    /\ UNCHANGED << swapvars, resvars >>

\* The file at the output path before it is opened: a file of an earlier
\* run when the path is one of theirs, else what the first state says.
existing_output ==
    IF outfilename[1] \in DOMAIN fs THEN Some(fs[outfilename[1]]) ELSE outfile

\* Lines 176-190: File::options().write(true).create_new(!force).open().
\* Without --force the file must not exist and is created empty; with
\* --force it must exist and is opened as it is, not truncated.  The open
\* may be refused for another reason.
OpenOutput ==
    /\ pc = "open_output"
    /\ \E denied \in BOOLEAN :
         IF /\ ~denied
            /\ IF args.force THEN existing_output # None
               ELSE existing_output = None
         THEN /\ outfile' = IF existing_output = None THEN Some(<< >>)
                            ELSE existing_output
              /\ outlimit' \in SinkLimits
              /\ outstate' = "open"
              /\ pc' = "write_header"
              /\ UNCHANGED << exitcode, msg, ioerr >>
         ELSE /\ Exit(1, "Unable to open file for output")
              /\ ioerr' = TRUE
              /\ UNCHANGED << outfile, outlimit >>
    /\ UNCHANGED << args, infile, infault, fs, inpos, bytes, filetype, outfiletype,
                    outfilename, outbuf, written, run, prev >>
    /\ UNCHANGED << swapvars, resvars >>

\* The output file once the BufWriter is in state o: the bytes newly
\* delivered overwrite the file at the write offset.
Deliver(o) ==
    /\ outbuf' = o.outbuf
    /\ written' = o.written
    /\ outfile' = Some(overlay(outfile[1], Len(written),
                               SubSeq(o.written, Len(written) + 1,
                                      Len(o.written))))

\* WriteHeader writing the header as read, not the destination's.
WriteHeader_source_header ==
    /\ pc = "write_header"
    /\ LET o == write_all(outbuf, written, bytes, outlimit)
       IN /\ Deliver(o)
          /\ ioerr' = (ioerr \/ ~o.ok)
          /\ IF o.ok
             THEN /\ pc' = "body"
                  /\ UNCHANGED << exitcode, msg, outstate >>
             ELSE Exit(1, "Unable to write to output file")
    /\ UNCHANGED << args, infile, infault, outlimit, fs, inpos, bytes, filetype,
                    outfiletype, outfilename, run, prev >>
    /\ UNCHANGED << swapvars, resvars >>

\* Lines 191-194.
WriteHeader ==
    /\ pc = "write_header"
    /\ LET o == write_all(outbuf, written, get_header_bytes(outfiletype[1]),
                          outlimit)
       IN /\ Deliver(o)
          /\ ioerr' = (ioerr \/ ~o.ok)
          /\ IF o.ok
             THEN /\ pc' = "body"
                  /\ UNCHANGED << exitcode, msg, outstate >>
             ELSE Exit(1, "Unable to write to output file")
    /\ UNCHANGED << args, infile, infault, outlimit, fs, inpos, bytes, filetype,
                    outfiletype, outfilename, run, prev >>
    /\ UNCHANGED << swapvars, resvars >>

\* Lines 196-203, once: the test of the loop condition and, when the read
\* succeeded, the loop body.  s = [inpos, bytes, outbuf, written, end, io];
\* `end` tells how the loop ended ("return": the read failed, "exit": the
\* write failed, line 201) and is "" while it runs; `io` tells that the
\* read that ended it failed with an I/O error.
body_word(content, fault, ft, oft, limit, s) ==
    IF s.end # "" THEN s
    ELSE LET r == read_exact(content, s.inpos, s.bytes, fault) IN
         IF ~r.ok
         THEN [inpos |-> r.pos, bytes |-> r.bytes, outbuf |-> s.outbuf,
               written |-> s.written, end |-> "return", io |-> r.io]
         ELSE LET swapped == swapper(r.bytes, ft, oft)
                  o == write_all(s.outbuf, s.written, swapped, limit)
              IN [inpos |-> r.pos, bytes |-> swapped, outbuf |-> o.outbuf,
                  written |-> o.written, end |-> IF o.ok THEN "" ELSE "exit",
                  io |-> FALSE]

\* n successive passes of body_word, the first half and then, unless the
\* loop ended there, the rest.
RECURSIVE body_words(_, _, _, _, _, _, _)
body_words(content, fault, ft, oft, limit, s, n) ==
    IF n <= 1 THEN body_word(content, fault, ft, oft, limit, s)
    ELSE LET half == body_words(content, fault, ft, oft, limit, s, n \div 2)
         IN IF half.end # "" THEN half
            ELSE body_words(content, fault, ft, oft, limit, half,
                            n - n \div 2)

\* The loop of lines 196-203 to its end: every word left in the input and
\* the read that fails after the last of them.
convert_body(content, fault, ft, oft, limit, s) ==
    body_words(content, fault, ft, oft, limit, s,
               (Len(content) - s.inpos) \div 4 + 1)

\* Lines 196-203: the loop, until the input ends or a write fails.
ConvertBody ==
    /\ pc = "body"
    /\ LET o == convert_body(infile[1], infault, filetype[1], outfiletype[1],
                             outlimit,
                             [inpos |-> inpos, bytes |-> bytes,
                              outbuf |-> outbuf, written |-> written,
                              end |-> "", io |-> FALSE])
       IN /\ inpos' = o.inpos
          /\ bytes' = o.bytes
          /\ Deliver(o)
          /\ ioerr' = (ioerr \/ o.io \/ o.end = "exit")
          /\ IF o.end = "return"
             THEN /\ pc' = "return"
                  /\ UNCHANGED << exitcode, msg, outstate >>
             ELSE Exit(1, "Error during output")
    /\ UNCHANGED << args, infile, infault, outlimit, fs, filetype,
                    outfiletype, outfilename, run, prev >>
    /\ UNCHANGED << swapvars, resvars >>

\* Line 204: main returns.  Drop of the BufWriter flushes the buffer and
\* ignores the result, the file is closed, the exit status is 0.
Return ==
    /\ pc = "return"
    /\ LET o == flush_buf(outbuf, written, outlimit)
       IN /\ Deliver(o)
          /\ ioerr' = (ioerr \/ ~o.ok)
    /\ outstate' = "dropped"
    /\ pc' = "done"
    /\ exitcode' = Some(0)
    /\ msg' = ""
    /\ UNCHANGED << args, infile, infault, outlimit, fs, inpos, bytes, filetype,
                    outfiletype, outfilename, run, prev >>
    /\ UNCHANGED << swapvars, resvars >>

\* The program is run again on the file the last run wrote without error
\* (a file no longer than those of InputFiles), asking for another encoding
\* without naming the destination.  The files of the last run stay where
\* they are.
Rerun ==
    /\ pc = "done"
    /\ outstate = "dropped"
    /\ ~ioerr
    /\ Len(outfile[1]) <= 4 + MaxBody
    /\ run < MaxRuns
    /\ \E t \in RomType, f \in BOOLEAN :
         args' = [ filename |-> outfilename[1],
                   destination_filename |-> None,
                   romtype |-> Some(t),
                   identify |-> FALSE,
                   force |-> f ]
    /\ prev' = Some([ input |-> infile[1], output |-> outfile[1],
                      filetype |-> filetype, outfiletype |-> outfiletype,
                      force |-> args.force, ioerr |-> ioerr ])
    /\ fs' = [n \in DOMAIN fs \cup { args.filename, outfilename[1] } |->
                IF n = outfilename[1] THEN outfile[1]
                ELSE IF n = args.filename THEN infile[1]
                ELSE fs[n]]
    /\ infile' = outfile
    /\ infault' = None
    /\ outfile' = None
    /\ outlimit' = None
    /\ run' = run + 1
    /\ pc' = "open_input"
    /\ inpos' = 0
    /\ bytes' = << 0, 0, 0, 0 >>
    /\ filetype' = None
    /\ outfiletype' = None
    /\ outfilename' = None
    /\ outbuf' = << >>
    /\ written' = << >>
    /\ outstate' = "unopened"
    /\ exitcode' = None
    /\ msg' = ""
    /\ ioerr' = FALSE
    /\ UNCHANGED << swapvars, resvars >>

Next ==
    \/ OpenInput
    \/ ReadHeader
    \/ IdentifyOnly
    \/ ResolveOutput
    \/ NameOutput
    \/ OpenOutput
    \/ WriteHeader
    \/ ConvertBody
    \/ Return
    \/ Rerun

Spec == Init /\ [][Next]_vars

(***************************************************************************)
(* The swap transform on its own: a word taken through a chain of          *)
(* encodings, as successive conversions of the same data do.               *)
(***************************************************************************)
ByteValues == { 128, 55, 18, 64, 0, 255 }
Words == [1..4 -> ByteValues]

\* main is not running.
IdleRun ==
    /\ args = [ filename |-> << >>, destination_filename |-> None,
                romtype |-> None, identify |-> FALSE, force |-> FALSE ]
    /\ infile = None
    /\ infault = None
    /\ outfile = None
    /\ outlimit = None
    /\ fs = NoFiles
    /\ pc = "idle"
    /\ inpos = 0
    /\ bytes = << 0, 0, 0, 0 >>
    /\ filetype = None
    /\ outfiletype = None
    /\ outfilename = None
    /\ outbuf = << >>
    /\ written = << >>
    /\ outstate = "unopened"
    /\ exitcode = None
    /\ msg = ""
    /\ ioerr = FALSE
    /\ run = 0
    /\ prev = None

InitSwap ==
    /\ IdleRun
    /\ IdleRes
    /\ word0 \in Words
    /\ word = word0
    /\ \E t \in RomType : path = << t >>

\* swapper(&mut word, src, dst) where src is the encoding the word is in.
SwapWord ==
    /\ path # << >>
    /\ Len(path) < MaxPath
    /\ \E dst \in RomType :
         /\ word' = swapper(word, path[Len(path)], dst)
         /\ path' = Append(path, dst)
    /\ UNCHANGED << word0, runvars, resvars >>

SpecSwap == InitSwap /\ [][SwapWord]_vars

(***************************************************************************)
(* The destination encoding on its own, over many filenames.               *)
(***************************************************************************)
NameTokens ==
    { << "a" >>, << "." >>, << "z", "6", "4" >>, << "Z", "6", "4" >>,
      << "v", "6", "4" >>, << "V", "6", "4" >>, << "n", "6", "4" >>,
      << "4" >> }

RECURSIVE NamesOf(_)
NamesOf(n) ==
    IF n = 0 THEN { << >> }
    ELSE LET shorter == NamesOf(n - 1)
         IN shorter \cup { s \o t : s \in shorter, t \in NameTokens }

InitRes ==
    /\ IdleRun
    /\ IdleSwap
    /\ rdest \in { None } \cup { Some(d) : d \in NamesOf(MaxParts) }
    /\ rromtype \in { None } \cup { Some(t) : t \in RomType }
    /\ rout = None

\* Lines 145-151 of main.
ResolveOnly ==
    /\ rout = None
    /\ rout' = Some(resolve_outfiletype(rromtype, rdest))
    /\ UNCHANGED << rdest, rromtype, runvars, swapvars >>

SpecRes == InitRes /\ [][ResolveOnly]_vars

(***************************************************************************)
(* Properties                                                              *)
(***************************************************************************)
\* The three signatures as the specification lists them.
SigBigEndian == << 128, 55, 18, 64 >>
SigByteSwap == << 55, 128, 64, 18 >>
SigLittleEndian == << 64, 18, 55, 128 >>
Signature(t) ==
    CASE t = "BigEndian" -> SigBigEndian
      [] t = "ByteSwap" -> SigByteSwap
      [] t = "LittleEndian" -> SigLittleEndian

\* C1: for distinct encodings A and B, swapper(w, A, B) followed by
\* swapper(., B, A) gives back the word w.
C1_SelfInverse ==
    (Len(path) = 3 /\ path[1] = path[3] /\ path[1] # path[2])
        => word = word0

C1_Witness ==
    /\ path = << "ByteSwap", "BigEndian", "ByteSwap" >>
    /\ word0 = << 128, 55, 18, 64 >>
    /\ word = word0

\* C2: for pairwise distinct encodings A, B, C, swapper(w, A, B) followed
\* by swapper(., B, C) gives the word swapper(w, A, C) gives.
C2_Composition ==
    (Len(path) = 3 /\ Cardinality({ path[1], path[2], path[3] }) = 3)
        => word = swapper(word0, path[1], path[3])

C2_Witness ==
    /\ path = << "BigEndian", "ByteSwap", "LittleEndian" >>
    /\ word0 = << 128, 55, 18, 64 >>
    /\ word = << 64, 18, 55, 128 >>

\* The body words of an input, each converted from S to D, in input order;
\* the bytes after the last complete word are left out.
ConvertedBody(content, S, D) ==
    LET body == SubSeq(content, 5, Len(content))
        n == Len(body) \div 4
    IN [i \in 1..(4 * n) |->
          swapper(SubSeq(body, 4 * ((i - 1) \div 4) + 1,
                         4 * ((i - 1) \div 4) + 4), S, D)[((i - 1) % 4) + 1]]

Converting ==
    /\ pc = "done"
    /\ ~ioerr
    /\ filetype # None
    /\ outfiletype # None
    /\ outfiletype # filetype

ConvertedExactly ==
    /\ exitcode = Some(0)
    /\ written = Signature(outfiletype[1])
                   \o ConvertedBody(infile[1], filetype[1], outfiletype[1])

\* C3 as stated: every run on a recognized input with a destination D # S
\* that meets no I/O error writes the signature of D and the converted
\* complete body words, and ends successfully.  Runs ended by a panic are
\* left aside, so that what refutes the statement is the same in every
\* build.
C3_AsStated == (Converting /\ msg # "panic") => ConvertedExactly

\* C3, amended: the same of every such run that goes on to open the output
\* (main stops before that when the output path equals the input path, or
\* by a panic while it derives the output path from the input name).
C3_ConvertedOutput ==
    (Converting /\ outstate # "unopened") => ConvertedExactly

C3_Witness ==
    /\ Converting
    /\ outstate = "dropped"
    /\ infile = Some(<< 128, 55, 18, 64, 1, 2, 3, 4, 5, 6 >>)
    /\ outfiletype = Some("LittleEndian")
    /\ written = << 64, 18, 55, 128, 4, 3, 2, 1 >>
    /\ exitcode = Some(0)

RoundTrip ==
    /\ pc = "done"
    /\ prev # None
    /\ prev[1].filetype = Some("BigEndian")
    /\ prev[1].outfiletype = Some("ByteSwap")
    /\ ~prev[1].ioerr
    /\ filetype = Some("ByteSwap")
    /\ outfiletype = Some("BigEndian")
    /\ ~ioerr
    /\ outstate = "dropped"

\* C4 as stated: a BigEndian input converted to ByteSwap and that output
\* converted back to BigEndian is the original byte sequence.
C4_AsStated == RoundTrip => outfile = Some(prev[1].input)

\* C4, amended: so it is when the body length is a multiple of 4 and both
\* outputs went to newly created files.
C4_RoundTrip ==
    (RoundTrip /\ Len(prev[1].input) % 4 = 0 /\ ~prev[1].force
       /\ ~args.force)
        => outfile = Some(prev[1].input)

C4_Witness ==
    /\ RoundTrip
    /\ ~prev[1].force
    /\ ~args.force
    /\ prev[1].input = << 128, 55, 18, 64, 1, 2, 3, 4 >>
    /\ prev[1].output = << 55, 128, 64, 18, 2, 1, 4, 3 >>
    /\ outfile = Some(prev[1].input)

\* C5: when the detected encoding equals the resolved destination, the run
\* ends at once with status 0 and the "already" message, and the output is
\* never opened, created or written.
C5_AlreadyTarget ==
    (filetype # None /\ outfiletype = filetype)
        => /\ pc = "done"
           /\ exitcode = Some(0)
           /\ msg = "File is already"
           /\ outstate = "unopened"
           /\ outfilename = None
           /\ written = << >>
           /\ outbuf = << >>
           /\ outfile \in OldOutputs

C5_Witness ==
    /\ pc = "done"
    /\ filetype = Some("ByteSwap")
    /\ outfiletype = Some("ByteSwap")
    /\ args.romtype = None
    /\ args.destination_filename = Some(<< "a", ".", "v", "6", "4" >>)
    /\ exitcode = Some(0)

\* Words to try identify_header on: the signatures, each signature with
\* one byte changed, and the 4-byte headers of the input files.
ProbeWords ==
    { Signature(t) : t \in RomType }
    \cup { [Signature(t) EXCEPT ![i] = 0] : t \in RomType, i \in 1..4 }
    \cup { h \in Headers : Len(h) = 4 }

IdentifyHeaderExact ==
    \A w \in ProbeWords :
        /\ \A t \in RomType :
             (w = Signature(t)) <=> (identify_header(w) = Some(t))
        /\ (\A t \in RomType : w # Signature(t)) <=> (identify_header(w) = None)

HeaderRead ==
    IF infile = None \/ Len(infile[1]) < 4 THEN None
    ELSE Some(SubSeq(infile[1], 1, 4))

BadHeader ==
    \/ HeaderRead = None
    \/ HeaderRead[1] \notin { SigBigEndian, SigByteSwap, SigLittleEndian }

\* C6: an input with fewer than 4 bytes, or whose first 4 bytes are none of
\* the three signatures, ends the run in failure with no output opened or
\* written; identify_header returns the encoding of each signature and
\* None for every other word.
C6_Unrecognized ==
    /\ pc = "read_header" => IdentifyHeaderExact
    /\ (pc # "idle" /\ BadHeader)
         => /\ filetype = None
            /\ outstate = "unopened"
            /\ written = << >>
            /\ outfile \in OldOutputs
            /\ pc = "done" => exitcode = Some(1)
    /\ (filetype # None)
         => (HeaderRead # None /\ HeaderRead[1] = Signature(filetype[1]))

C6_Witness ==
    /\ pc = "done"
    /\ infile = Some(<< 255, 255, 255, 255, 1, 2, 3, 4 >>)
    /\ msg = "not recognized"
    /\ exitcode = Some(1)
    /\ outstate = "unopened"

\* Two characters equal up to the case of a letter.
SameLetter(c, d) ==
    \/ c = d
    \/ { c, d } \in { { "z", "Z" }, { "v", "V" }, { "n", "N" }, { "a", "A" } }

\* The substring of name from its last '.' to its end is the canonical
\* suffix of encoding t, up to case.
HasSuffixOf(name, t) ==
    \E i \in 1..Len(name) :
        /\ name[i] = "."
        /\ \A j \in (i + 1)..Len(name) : name[j] # "."
        /\ Len(name) - i + 1 = Len(get_file_ext(t))
        /\ \A k \in 1..Len(get_file_ext(t)) :
             SameLetter(name[i + k - 1], get_file_ext(t)[k])

\* C7: the destination encoding is the explicit romtype when one is given;
\* otherwise the encoding whose canonical suffix is, up to case, the
\* destination filename from its last '.' on; otherwise BigEndian.
C7_DestinationPriority ==
    rout # None =>
        IF rromtype # None THEN rout = rromtype
        ELSE IF rdest # None /\ \E t \in RomType : HasSuffixOf(rdest[1], t)
             THEN HasSuffixOf(rdest[1], rout[1])
             ELSE rout = Some("BigEndian")

C7_Witness ==
    /\ rromtype = None
    /\ rdest = Some(<< ".", "a", ".", "V", "6", "4" >>)
    /\ rout = Some("ByteSwap")

\* C8: no run in which a read or write error occurred ends with a success
\* status.
C8_IoErrorIsFailure == (pc = "done" /\ ioerr) => exitcode # Some(0)

\* C9: once the output stream is acquired, every path by which the run
\* ends flushes and closes it.
C9_FlushedOnEveryPath ==
    (pc = "done" /\ outstate # "unopened") => outstate = "dropped"

\* The bytes the output stream has accepted so far.
Accepted == written \o outbuf

\* C10: swapper takes the signature of S to the signature of D; the header
\* written is what swapper gives on the header read, and identify_header
\* on the first 4 bytes of a completed output is the destination.
C10_HeaderIsPermutedSignature ==
    /\ pc = "write_header" =>
         \A S \in RomType, D \in RomType :
             swapper(get_header_bytes(S), S, D) = get_header_bytes(D)
    /\ (outstate # "unopened" /\ pc # "write_header")
         => /\ Len(Accepted) >= 4
            /\ SubSeq(Accepted, 1, 4)
                 = swapper(SubSeq(infile[1], 1, 4), filetype[1],
                           outfiletype[1])
    /\ (pc = "done" /\ outstate = "dropped" /\ ~ioerr)
         => identify_header(SubSeq(outfile[1], 1, 4)) = outfiletype

C10_Witness ==
    /\ pc = "done"
    /\ outstate = "dropped"
    /\ ~ioerr
    /\ filetype = Some("ByteSwap")
    /\ outfiletype = Some("LittleEndian")
    /\ SubSeq(outfile[1], 1, 4) = << 64, 18, 55, 128 >>

====
